---- MODULE Spec2Model ----
(***************************************************************************)
(* Model of src/app.py: the Streamlit script main() and the RAGPipeline    *)
(* class it drives (document upload to Ragie, chunk retrieval, system      *)
(* prompt construction, completion through the SambaNova client).          *)
(*                                                                         *)
(* Python strings whose characters the code inspects or transforms (URLs,  *)
(* document names, chunk texts, the system prompt) are sequences of        *)
(* one-character strings.  Strings the code only passes along (API keys,   *)
(* the query, HTTP reason phrases, UI messages) are TLA+ strings.          *)
(***************************************************************************)
EXTENDS Integers, Sequences, FiniteSets, TLC

(***************************************************************************)
(* Bounds of the model.                                                    *)
(***************************************************************************)
\* longest chunk text drawn for create_system_prompt
MaxTextLen == 2
\* most chunks in one list drawn for create_system_prompt
MaxChunks == 2
\* longest URL enumerated character by character for upload_document
MaxUrlLen == 4
\* most chunks in one retrieval response of the pipeline
MaxRespChunks == 2

(***************************************************************************)
(* Characters.                                                             *)
(***************************************************************************)
NL == "\n"
BS == "\\"
SQ == "'"
DQ == "\""

Letters ==
    { "a", "b", "c", "d", "e", "f", "g", "h", "i", "j", "k", "l", "m",
      "n", "o", "p", "q", "r", "s", "t", "u", "v", "w", "x", "y", "z" }

Digits == { "0", "1", "2", "3", "4", "5", "6", "7", "8", "9" }

(***************************************************************************)
(* Sequence helpers (Python str methods on character sequences).           *)
(***************************************************************************)
SetMin(S) == CHOOSE x \in S : \A y \in S : x <= y

SetMax(S) == CHOOSE x \in S : \A y \in S : x >= y

\* s[i:] for a 1-based i
From(s, i) == SubSeq(s, i, Len(s))

\* s[:i-1] for a 1-based i
Before(s, i) == SubSeq(s, 1, i - 1)

\* str.find(c, start): the first 1-based index >= from holding c, or 0
Find(s, c, from) ==
    LET hits == { i \in from..Len(s) : s[i] = c }
    IN  IF hits = {} THEN 0 ELSE SetMin(hits)

\* str.rfind(c): the last 1-based index holding c, or 0
RFind(s, c) ==
    LET hits == { i \in 1..Len(s) : s[i] = c }
    IN  IF hits = {} THEN 0 ELSE SetMax(hits)

\* str.split(sep): the pieces between the occurrences of the character sep
RECURSIVE Split(_, _)
Split(s, sep) ==
    LET i == Find(s, sep, 1)
    IN  IF i = 0 THEN << s >>
        ELSE << Before(s, i) >> \o Split(From(s, i + 1), sep)

\* sep.join(parts)
RECURSIVE Join(_, _)
Join(parts, sep) ==
    IF parts = << >> THEN << >>
    ELSE IF Len(parts) = 1 THEN parts[1]
    ELSE parts[1] \o sep \o Join(Tail(parts), sep)

\* every string over alphabet of length at most n
StringsUpTo(alphabet, n) == UNION { [1..k -> alphabet] : k \in 0..n }

(***************************************************************************)
(* create_system_prompt: an f-string that interpolates the list            *)
(* chunk_texts, so the prompt holds str(chunk_texts), the repr of a list   *)
(* of str, between the two halves of the fixed template.                   *)
(***************************************************************************)
\* the quote Python's repr of a str chooses
ReprQuote(s) ==
    IF (\E i \in 1..Len(s) : s[i] = SQ) /\ ~(\E i \in 1..Len(s) : s[i] = DQ)
    THEN DQ ELSE SQ

\* repr of one character inside quote q
ReprChar(c, q) ==
    IF c = BS THEN << BS, BS >>
    ELSE IF c = q THEN << BS, q >>
    ELSE IF c = NL THEN << BS, "n" >>
    ELSE << c >>

RECURSIVE ReprBody(_, _)
ReprBody(s, q) ==
    IF s = << >> THEN << >>
    ELSE ReprChar(Head(s), q) \o ReprBody(Tail(s), q)

\* repr(s) for a str s
StrRepr(s) == LET q == ReprQuote(s) IN << q >> \o ReprBody(s, q) \o << q >>

\* str(xs) for a list of str
ListRepr(xs) ==
    << "[" >> \o Join([i \in 1..Len(xs) |-> StrRepr(xs[i])], << ",", " " >>)
              \o << "]" >>

TemplateHead ==
    << "T", "h", "e", "s", "e", " ", "a", "r", "e", " ", "v", "e", "r", "y", " ", "i", "m", "p",
    "o", "r", "t", "a", "n", "t", " ", "t", "o", " ", "f", "o", "l", "l", "o", "w", ":", " ",
    "Y", "o", "u", " ", "a", "r", "e", " ", "\"", "R", "a", "g", "i", "e", " ", "A", "I", "\"",
    ",", " ", "a", " ", "p", "r", "o", "f", "e", "s", "s", "i", "o", "n", "a", "l", " ", "b",
    "u", "t", " ", "f", "r", "i", "e", "n", "d", "l", "y", " ", "A", "I", " ", "c", "h", "a",
    "t", "b", "o", "t", " ", "w", "o", "r", "k", "i", "n", "g", " ", "a", "s", " ", "a", "n",
    " ", "a", "s", "s", "i", "s", "t", "a", "n", "t", " ", "t", "o", " ", "t", "h", "e", " ",
    "u", "s", "e", "r", ".", " ", "Y", "o", "u", "r", " ", "c", "u", "r", "r", "e", "n", "t",
    " ", "t", "a", "s", "k", " ", "i", "s", " ", "t", "o", " ", "h", "e", "l", "p", " ", "t",
    "h", "e", " ", "u", "s", "e", "r", " ", "b", "a", "s", "e", "d", " ", "o", "n", " ", "a",
    "l", "l", " ", "o", "f", " ", "t", "h", "e", " ", "i", "n", "f", "o", "r", "m", "a", "t",
    "i", "o", "n", " ", "a", "v", "a", "i", "l", "a", "b", "l", "e", " ", "t", "o", " ", "y",
    "o", "u", " ", "s", "h", "o", "w", "n", " ", "b", "e", "l", "o", "w", ".", " ", "A", "n",
    "s", "w", "e", "r", " ", "i", "n", "f", "o", "r", "m", "a", "l", "l", "y", ",", " ", "d",
    "i", "r", "e", "c", "t", "l", "y", ",", " ", "a", "n", "d", " ", "c", "o", "n", "c", "i",
    "s", "e", "l", "y", " ", "w", "i", "t", "h", "o", "u", "t", " ", "a", " ", "h", "e", "a",
    "d", "i", "n", "g", " ", "o", "r", " ", "g", "r", "e", "e", "t", "i", "n", "g", " ", "b",
    "u", "t", " ", "i", "n", "c", "l", "u", "d", "e", " ", "e", "v", "e", "r", "y", "t", "h",
    "i", "n", "g", " ", "r", "e", "l", "e", "v", "a", "n", "t", ".", " ", "U", "s", "e", " ",
    "r", "i", "c", "h", "t", "e", "x", "t", " ", "M", "a", "r", "k", "d", "o", "w", "n", " ",
    "w", "h", "e", "n", " ", "a", "p", "p", "r", "o", "p", "r", "i", "a", "t", "e", " ", "i",
    "n", "c", "l", "u", "d", "i", "n", "g", " ", "b", "o", "l", "d", ",", " ", "i", "t", "a",
    "l", "i", "c", ",", " ", "p", "a", "r", "a", "g", "r", "a", "p", "h", "s", ",", " ", "a",
    "n", "d", " ", "l", "i", "s", "t", "s", " ", "w", "h", "e", "n", " ", "h", "e", "l", "p",
    "f", "u", "l", ".", " ", "I", "f", " ", "u", "s", "i", "n", "g", " ", "L", "a", "T", "e",
    "X", ",", " ", "u", "s", "e", " ", "d", "o", "u", "b", "l", "e", " ", "$", "$", " ", "a",
    "s", " ", "d", "e", "l", "i", "m", "i", "t", "e", "r", " ", "i", "n", "s", "t", "e", "a",
    "d", " ", "o", "f", " ", "s", "i", "n", "g", "l", "e", " ", "$", ".", " ", "U", "s", "e",
    " ", "$", "$", ".", ".", ".", "$", "$", " ", "i", "n", "s", "t", "e", "a", "d", " ", "o",
    "f", " ", "p", "a", "r", "e", "n", "t", "h", "e", "s", "e", "s", ".", " ", "O", "r", "g",
    "a", "n", "i", "z", "e", " ", "i", "n", "f", "o", "r", "m", "a", "t", "i", "o", "n", " ",
    "i", "n", "t", "o", " ", "m", "u", "l", "t", "i", "p", "l", "e", " ", "s", "e", "c", "t",
    "i", "o", "n", "s", " ", "o", "r", " ", "p", "o", "i", "n", "t", "s", " ", "w", "h", "e",
    "n", " ", "a", "p", "p", "r", "o", "p", "r", "i", "a", "t", "e", ".", " ", "D", "o", "n",
    "'", "t", " ", "i", "n", "c", "l", "u", "d", "e", " ", "r", "a", "w", " ", "i", "t", "e",
    "m", " ", "I", "D", "s", " ", "o", "r", " ", "o", "t", "h", "e", "r", " ", "r", "a", "w",
    " ", "f", "i", "e", "l", "d", "s", " ", "f", "r", "o", "m", " ", "t", "h", "e", " ", "s",
    "o", "u", "r", "c", "e", ".", " ", "D", "o", "n", "'", "t", " ", "u", "s", "e", " ", "X",
    "M", "L", " ", "o", "r", " ", "o", "t", "h", "e", "r", " ", "m", "a", "r", "k", "u", "p",
    " ", "u", "n", "l", "e", "s", "s", " ", "r", "e", "q", "u", "e", "s", "t", "e", "d", " ",
    "b", "y", " ", "t", "h", "e", " ", "u", "s", "e", "r", ".", " ", "H", "e", "r", "e", " ",
    "i", "s", " ", "a", "l", "l", " ", "o", "f", " ", "t", "h", "e", " ", "i", "n", "f", "o",
    "r", "m", "a", "t", "i", "o", "n", " ", "a", "v", "a", "i", "l", "a", "b", "l", "e", " ",
    "t", "o", " ", "a", "n", "s", "w", "e", "r", " ", "t", "h", "e", " ", "u", "s", "e", "r",
    ":", " ", "=", "=", "=", " " >>

TemplateTail ==
    << " ", "=", "=", "=", " ", "I", "f", " ", "t", "h", "e", " ", "u", "s", "e", "r", " ", "a",
    "s", "k", "e", "d", " ", "f", "o", "r", " ", "a", " ", "s", "e", "a", "r", "c", "h", " ",
    "a", "n", "d", " ", "t", "h", "e", "r", "e", " ", "a", "r", "e", " ", "n", "o", " ", "r",
    "e", "s", "u", "l", "t", "s", ",", " ", "m", "a", "k", "e", " ", "s", "u", "r", "e", " ",
    "t", "o", " ", "l", "e", "t", " ", "t", "h", "e", " ", "u", "s", "e", "r", " ", "k", "n",
    "o", "w", " ", "t", "h", "a", "t", " ", "y", "o", "u", " ", "c", "o", "u", "l", "d", "n",
    "'", "t", " ", "f", "i", "n", "d", " ", "a", "n", "y", "t", "h", "i", "n", "g", ",", " ",
    "a", "n", "d", " ", "w", "h", "a", "t", " ", "t", "h", "e", "y", " ", "m", "i", "g", "h",
    "t", " ", "b", "e", " ", "a", "b", "l", "e", " ", "t", "o", " ", "d", "o", " ", "t", "o",
    " ", "f", "i", "n", "d", " ", "t", "h", "e", " ", "i", "n", "f", "o", "r", "m", "a", "t",
    "i", "o", "n", " ", "t", "h", "e", "y", " ", "n", "e", "e", "d", ".", " ", "E", "N", "D",
    " ", "S", "Y", "S", "T", "E", "M", " ", "I", "N", "S", "T", "R", "U", "C", "T", "I", "O",
    "N", "S" >>

create_system_prompt(chunk_texts) ==
    TemplateHead \o ListRepr(chunk_texts) \o TemplateTail

(***************************************************************************)
(* urllib.parse.urlparse, as far as it decides the path component.         *)
(***************************************************************************)
UpperLetters ==
    << "A", "B", "C", "D", "E", "F", "G", "H", "I", "J", "K", "L", "M",
       "N", "O", "P", "Q", "R", "S", "T", "U", "V", "W", "X", "Y", "Z" >>

LowerLetters ==
    << "a", "b", "c", "d", "e", "f", "g", "h", "i", "j", "k", "l", "m",
       "n", "o", "p", "q", "r", "s", "t", "u", "v", "w", "x", "y", "z" >>

IsUpper(c) == \E i \in 1..Len(UpperLetters) : UpperLetters[i] = c

IsAlpha(c) == c \in Letters \/ IsUpper(c)

\* str.lower() on one character
LowerChar(c) ==
    IF IsUpper(c)
    THEN LowerLetters[CHOOSE i \in 1..Len(UpperLetters) : UpperLetters[i] = c]
    ELSE c

Lower(s) == [i \in 1..Len(s) |-> LowerChar(s[i])]

\* urllib.parse.scheme_chars
IsSchemeChar(c) == IsAlpha(c) \/ c \in Digits \/ c \in { "+", "-", "." }

\* urllib.parse.uses_params
uses_params ==
    { << >>,
      << "f", "t", "p" >>,
      << "h", "d", "l" >>,
      << "p", "r", "o", "s", "p", "e", "r", "o" >>,
      << "h", "t", "t", "p" >>,
      << "i", "m", "a", "p" >>,
      << "h", "t", "t", "p", "s" >>,
      << "s", "h", "t", "t", "p" >>,
      << "r", "t", "s", "p" >>,
      << "r", "t", "s", "p", "u" >>,
      << "s", "i", "p" >>,
      << "s", "i", "p", "s" >>,
      << "m", "m", "s" >>,
      << "s", "f", "t", "p" >>,
      << "t", "e", "l" >>
    }

\* urlsplit, first step: [scheme, rest] after a leading "<scheme>:" is taken off
SplitScheme(url) ==
    LET i == Find(url, ":", 1)
    IN  IF /\ i > 1
           /\ IsAlpha(url[1])
           /\ \A k \in 1..(i - 1) : IsSchemeChar(url[k])
        THEN [scheme |-> Lower(Before(url, i)), rest |-> From(url, i + 1)]
        ELSE [scheme |-> << >>, rest |-> url]

\* _splitnetloc(url, 2): [netloc, rest] when url starts with "//"
SplitNetloc(url) ==
    IF Len(url) >= 2 /\ url[1] = "/" /\ url[2] = "/"
    THEN LET ends  == { Find(url, c, 3) : c \in { "/", "?", "#" } } \ { 0 }
             delim == IF ends = {} THEN Len(url) + 1 ELSE SetMin(ends)
         IN  [netloc |-> SubSeq(url, 3, delim - 1), rest |-> From(url, delim)]
    ELSE [netloc |-> << >>, rest |-> url]

\* url.split(c, 1)[0] when c occurs in url, url itself otherwise
CutAt(url, c) ==
    LET i == Find(url, c, 1)
    IN  IF i = 0 THEN url ELSE Before(url, i)

\* _splitparams(url)[0]
SplitParams(url) ==
    LET slash == RFind(url, "/")
        i     == IF slash > 0 THEN Find(url, ";", slash) ELSE Find(url, ";", 1)
    IN  IF i = 0 THEN url ELSE Before(url, i)

\* urlparse(url): the scheme, netloc and path components
urlparse(url) ==
    LET s    == SplitScheme(url)
        n    == SplitNetloc(s.rest)
        p    == CutAt(CutAt(n.rest, "#"), "?")
        path == IF s.scheme \in uses_params /\ Find(p, ";", 1) > 0
                THEN SplitParams(p) ELSE p
    IN  [scheme |-> s.scheme, netloc |-> n.netloc, path |-> path]

(***************************************************************************)
(* RAGPipeline.upload_document: the request payload.                       *)
(***************************************************************************)
\* Python's None, for an Optional[str] argument
PyNone == << "None" >>

\* "not name" for an Optional[str]
Falsy(name) == name = PyNone \/ name = << >>

FallbackName == << "d", "o", "c", "u", "m", "e", "n", "t" >>

\* the default name without the fallback: urlparse(url).path.split('/')[-1]
LastPieceOnly(url) ==
    LET parts == Split(urlparse(url).path, "/")
    IN  parts[Len(parts)]

\* urlparse(url).path.split('/')[-1] or "document"
DefaultName(url) ==
    LET parts == Split(urlparse(url).path, "/")
        last  == parts[Len(parts)]
    IN  IF last = << >> THEN FallbackName ELSE last

\* the JSON body upload_document posts
UploadPayload(url, name, mode) ==
    [ mode |-> mode,
      name |-> IF Falsy(name) THEN DefaultName(url) ELSE name,
      url  |-> url ]

(***************************************************************************)
(* The values the environment and the user supply.                         *)
(***************************************************************************)
\* Python's None, for a str-valued variable that is unset
NoneStr == "<None>"

\* truth value of an Optional[str]
Truthy(s) == s /= NoneStr /\ s /= ""

\* os.getenv("RAGIE_API_KEY"): unset, set to the empty string, or set
RagieKeyValues == { NoneStr, "", "ragie-key" }

\* what the user may type into "Enter SambaNova API Key"
SambaNovaKeyInputs == { "", "key-1", "key-2" }

\* the buttons of the page; at most one is clicked in a script run
Buttons == { "none", "Submit API Key", "Upload Document", "Generate Response" }

UploadModes == { "fast", "accurate" }

QueryInputs == { "", "What is the capital of France?" }

GuideUrl ==
    << "h", "t", "t", "p", "s", ":", "/", "/", "d", "o", "c", "s", ".",
       "e", "x", "a", "m", "p", "l", "e", ".", "c", "o", "m", "/",
       "g", "u", "i", "d", "e", ".", "p", "d", "f" >>

RootUrl ==
    << "h", "t", "t", "p", "s", ":", "/", "/", "e", "x", "a", "m", "p",
       "l", "e", ".", "c", "o", "m", "/" >>

BareHostUrl ==
    << "h", "t", "t", "p", "s", ":", "/", "/", "e", "x", "a", "m", "p",
       "l", "e", ".", "c", "o", "m" >>

ParamsUrl ==
    << "H", "T", "T", "P", "S", ":", "/", "/", "e", "x", "a", "m", "p",
       "l", "e", ".", "c", "o", "m", "/", "a", "/", "b", ";", "v", "?",
       "x", "#", "f" >>

\* what the user may type into "Enter document URL" in the pipeline
DocUrlInputs == { << >>, GuideUrl, RootUrl }

\* what the user may type into "Document name (optional)"
DocNameInputs == { << >>, << "m", "y" >> }

\* the URLs upload_document's payload is built from, character by character
UrlAlphabet == { "a", ":", "/", "?", "#", ";" }

UrlStrings ==
    StringsUpTo(UrlAlphabet, MaxUrlLen)
        \cup { GuideUrl, RootUrl, BareHostUrl, ParamsUrl }

\* the name argument of upload_document
NameArgs == { PyNone, << >>, << "m", "y" >> }

\* the chunk texts create_system_prompt is applied to
TextAlphabet == { "a", NL, BS, SQ, DQ }

ChunkTextLists ==
    UNION { [1..k -> StringsUpTo(TextAlphabet, MaxTextLen)] : k \in 0..MaxChunks }

\* HTTP statuses the Ragie endpoints may answer with, and reason phrases
Statuses == { 200, 304, 404, 500 }

Reasons == { "Reason A", "Reason B" }

\* a status check that lets every status pass
AnyStatusOk(status) == TRUE

\* response.ok of requests: false exactly for the 4xx and 5xx statuses
ResponseOk(status) == ~(status >= 400 /\ status < 600)

\* one item of "scored_chunks": with a text, or lacking the "text" field
ParisText ==
    << "P", "a", "r", "i", "s" >>

QuotedText == << "2", ".", "1", NL, "m" >>

ScoredChunkItems ==
    { [text |-> ParisText, score |-> "0.9"],
      [text |-> QuotedText, score |-> "0.8"],
      [score |-> "0.7"] }

\* the bodies the retrieval endpoint may answer with
RetrievalBodies ==
    { [kind |-> "not json"], [kind |-> "json", fields |-> { }] }
    \cup { [kind |-> "json", fields |-> { "scored_chunks" }, scored_chunks |-> items] :
              items \in UNION { [1..k -> ScoredChunkItems] : k \in 0..MaxRespChunks } }

\* whether the upload response body parses as JSON
UploadBodies == { [kind |-> "not json"], [kind |-> "json", fields |-> { "id" }] }

\* what chat.completions.create does: returns a completion or raises
GenerationOutcomes ==
    { [raised |-> FALSE, content |-> "Paris."],
      [raised |-> FALSE, content |-> "No relevant information found for your query."],
      [raised |-> TRUE, message |-> "Error code: 401 - invalid api key"],
      [raised |-> TRUE, message |-> "Connection error."] }

(***************************************************************************)
(* Program constants.                                                      *)
(***************************************************************************)
GraceSeconds == 5

Sentinel == "No relevant information found for your query."

DefaultScope == "tutorial"

RAGIE_UPLOAD_URL == "https://api.ragie.ai/documents/url"

RAGIE_RETRIEVAL_URL == "https://api.ragie.ai/retrievals"

SAMBANOVA_BASE_URL == "https://api.sambanova.ai/v1"

(***************************************************************************)
(* State.                                                                  *)
(***************************************************************************)
VARIABLES
    RAGIE_API_KEY,   \* module-level value read from the environment
    session_state,   \* st.session_state
    sambanova_key,   \* value of the API key text input in this run
    doc_url,         \* value of the document URL text input
    doc_name,        \* value of the document name text input
    upload_mode,     \* value of the upload mode select box
    query,           \* value of the query text input
    clicked,         \* the button whose click started this run
    pc,              \* position of the script run ("idle": between runs)
    pipeline,        \* the RAGPipeline object of this run
    payload,         \* upload_document's local payload
    chunks,          \* process_query's local chunks
    system_prompt,   \* process_query's local system_prompt
    response,        \* what process_query returned
    trace,           \* this run's outbound calls, sleeps and page output
    returned,        \* history: the pipeline methods that returned in this run
    failed,          \* history: the stage whose failure ended the operation
    accepted_key,    \* history: the key the page last accepted
    replaced_key     \* history: the key accepted before that one

vars ==
    << RAGIE_API_KEY, session_state, sambanova_key, doc_url, doc_name,
       upload_mode, query, clicked, pc, pipeline, payload, chunks,
       system_prompt, response, trace, returned, failed, accepted_key,
       replaced_key >>

inputs == << sambanova_key, doc_url, doc_name, upload_mode, query, clicked >>

history == << accepted_key, replaced_key >>

(***************************************************************************)
(* Events of a run.                                                        *)
(***************************************************************************)
\* st.success / st.error / st.info / st.markdown
Ui(kind, text) == [ev |-> "ui", kind |-> kind, text |-> text]

\* an outbound call: requests.post or chat.completions.create
Request(to, auth, body) == [ev |-> "request", to |-> to, auth |-> auth, body |-> body]

\* what came back from an outbound call
Response(from, status, reason, body) ==
    [ev |-> "response", from |-> from, status |-> status, reason |-> reason,
     body |-> body]

\* time.sleep
Sleep(seconds) == [ev |-> "sleep", seconds |-> seconds]

IsUi(e, kind) == e.ev = "ui" /\ e.kind = kind

IsRequest(e, to) == e.ev = "request" /\ e.to = to

IsResponse(e, from) == e.ev = "response" /\ e.from = from

IsSleep(e) == e.ev = "sleep"

(***************************************************************************)
(* Exception texts, str(e).                                                *)
(***************************************************************************)
\* __init__, line 23
MissingRagieKeyMessage == << "Missing Ragie API key! Please check your .env file." >>

\* an upload error message that leaves out what the endpoint answered
UploadFailedNoStatus(status, reason) == << "Document upload failed" >>

\* upload_document, line 57
UploadFailedMessage(status, reason) ==
    << "Document upload failed: ", ToString(status), " ", reason >>

\* retrieve_chunks, line 86
RetrievalFailedMessage(status, reason) ==
    << "Retrieval failed: ", ToString(status), " ", reason >>

\* str(KeyError('scored_chunks')), str(KeyError('text'))
MissingChunksMessage == << "'scored_chunks'" >>

MissingTextMessage == << "'text'" >>

\* str of the JSONDecodeError response.json() raises
JsonDecodeMessage == << "Expecting value: line 1 column 1 (char 0)" >>

\* the except clauses of main
UploadError(message) == Ui("error", << "Error uploading document: " >> \o message)

QueryError(message) == Ui("error", << "Error generating response: " >> \o message)

(***************************************************************************)
(* RAGPipeline.                                                            *)
(***************************************************************************)
NoPipeline == [constructed |-> FALSE]

\* an __init__ that does not check the Ragie key
RagieKeyUnchecked == FALSE

\* __init__: the check of line 22
MissingRagieKey == ~Truthy(RAGIE_API_KEY)

\* __init__: the object built when the check passes
RAGPipeline(sambanova_api_key) ==
    [ constructed       |-> TRUE,
      ragie_api_key     |-> RAGIE_API_KEY,
      sambanova_api_key |-> sambanova_api_key,
      sambanova_client  |-> [api_key  |-> sambanova_api_key,
                             base_url |-> SAMBANOVA_BASE_URL] ]

\* a main that builds the pipeline from the text input instead of the session
TypedKey == sambanova_key

\* the argument main passes to RAGPipeline, line 152
ConstructorArg == session_state.sambanova_key

\* upload_document: the requests.post of line 54
UploadRequest(body) ==
    Request("upload", pipeline.ragie_api_key, [url |-> RAGIE_UPLOAD_URL, json |-> body])

\* retrieve_chunks: the requests.post of lines 79-83
RetrievalRequest(q, scope) ==
    Request("retrieval", pipeline.ragie_api_key,
            [url  |-> RAGIE_RETRIEVAL_URL,
             json |-> [query |-> q, filters |-> [scope |-> scope]]])

\* generate_response: the chat.completions.create of lines 106-114
GenerationRequest(prompt, q) ==
    Request("generation", pipeline.sambanova_client.api_key,
            [ base_url    |-> pipeline.sambanova_client.base_url,
              model       |-> "Llama-3.2-11B-Vision-Instruct",
              messages    |-> << [role |-> "system", content |-> prompt],
                                 [role |-> "user", content |-> << q >>] >>,
              temperature |-> "0.1",
              top_p       |-> "0.1" ])

\* retrieve_chunks, line 94: the text of every scored chunk
ChunkTexts(items) == [i \in 1..Len(items) |-> items[i].text]

\* a process_query that lacks the short-circuit of lines 124-125
NeverEmptyResult(chunk_texts) == FALSE

\* process_query, line 124: "not chunks"
IsEmptyResult(chunk_texts) == chunk_texts = << >>

\* an upload that is submitted again after a failure
RetryUpload == "L167"

\* where the script goes on after the except clause of the upload, line 179
AfterUploadError == "L187"

\* a confirmation shown without the wait for indexing
SkipGraceDelay == "L177"

\* where the script goes on once upload_document returned, line 176
AfterUploadReturn == "L176"

(***************************************************************************)
(* The script main(), one run per user interaction.                        *)
(***************************************************************************)
Init ==
    /\ RAGIE_API_KEY \in RagieKeyValues
    /\ session_state = [keys |-> { }, sambanova_key |-> NoneStr]
    /\ sambanova_key = ""
    /\ doc_url = << >>
    /\ doc_name = << >>
    /\ upload_mode = "fast"
    /\ query = ""
    /\ clicked = "none"
    /\ pc = "idle"
    /\ pipeline = NoPipeline
    /\ payload = [mode |-> "fast", name |-> << >>, url |-> << >>]
    /\ chunks = << >>
    /\ system_prompt = << >>
    /\ response = NoneStr
    /\ trace = << >>
    /\ returned = { }
    /\ failed = "none"
    /\ accepted_key = NoneStr
    /\ replaced_key = NoneStr

\* lines 11-12 run again in every script run: load_dotenv leaves a variable
\* the environment already holds as it is, and may set one it does not hold
ReloadedRagieKey ==
    IF RAGIE_API_KEY = NoneStr THEN RagieKeyValues ELSE { RAGIE_API_KEY }

\* a run of the script starts from the top: the locals and the page are fresh
StartRun(button) ==
    /\ pc = "idle"
    /\ clicked' = button
    /\ pc' = "L143"
    /\ pipeline' = NoPipeline
    /\ payload' = [mode |-> "fast", name |-> << >>, url |-> << >>]
    /\ chunks' = << >>
    /\ system_prompt' = << >>
    /\ response' = NoneStr
    /\ trace' = << >>
    /\ returned' = { }
    /\ failed' = "none"
    /\ RAGIE_API_KEY' \in ReloadedRagieKey
    /\ UNCHANGED << session_state, history >>

\* the user clicks a button: the script reruns with that button true
Click(button) ==
    /\ StartRun(button)
    /\ UNCHANGED << sambanova_key, doc_url, doc_name, upload_mode, query >>

\* the user changes a widget's value: the script reruns with no button true
EditApiKey(key) ==
    /\ key /= sambanova_key
    /\ StartRun("none")
    /\ sambanova_key' = key
    /\ UNCHANGED << doc_url, doc_name, upload_mode, query >>

EditDocument(url, name, mode) ==
    /\ << url, name, mode >> /= << doc_url, doc_name, upload_mode >>
    /\ StartRun("none")
    /\ doc_url' = url
    /\ doc_name' = name
    /\ upload_mode' = mode
    /\ UNCHANGED << sambanova_key, query >>

EditQuery(q) ==
    /\ q /= query
    /\ StartRun("none")
    /\ query' = q
    /\ UNCHANGED << sambanova_key, doc_url, doc_name, upload_mode >>

\* lines 143-148: the "Submit API Key" button
SubmitApiKey ==
    /\ pc = "L143"
    /\ pc' = "L150"
    /\ IF clicked = "Submit API Key" /\ sambanova_key /= ""
       THEN /\ session_state' =
                   [keys |-> session_state.keys \cup { "sambanova_key" },
                    sambanova_key |-> sambanova_key]
            /\ accepted_key' = sambanova_key
            /\ replaced_key' = accepted_key
            /\ trace' = Append(trace,
                   Ui("success", << "SambaNova API key submitted successfully!" >>))
       ELSE /\ trace' = IF clicked = "Submit API Key"
                        THEN Append(trace,
                                 Ui("error", << "Please enter your SambaNova API key." >>))
                        ELSE trace
            /\ UNCHANGED << session_state, history >>
    /\ UNCHANGED << RAGIE_API_KEY, inputs, pipeline, payload, chunks,
                    system_prompt, response, returned, failed >>

\* lines 150-156: the pipeline is built anew in every run that has a key
ConstructPipeline ==
    /\ pc = "L150"
    /\ IF "sambanova_key" \notin session_state.keys
       THEN /\ pc' = "idle"
            /\ UNCHANGED << pipeline, trace >>
       ELSE IF MissingRagieKey
       THEN /\ pc' = "idle"
            /\ trace' = Append(trace, Ui("error", MissingRagieKeyMessage))
            /\ UNCHANGED pipeline
       ELSE /\ pc' = "L167"
            /\ pipeline' = RAGPipeline(ConstructorArg)
            /\ trace' = Append(trace, Ui("success", << "API keys loaded successfully!" >>))
    /\ UNCHANGED << RAGIE_API_KEY, session_state, inputs, payload, chunks,
                    system_prompt, response, returned, failed, history >>

\* lines 167-181 and 39-54: the "Upload Document" button, up to the POST
UploadClick ==
    /\ pc = "L167"
    /\ IF clicked = "Upload Document" /\ doc_url /= << >>
       THEN LET name == IF doc_name /= << >> THEN doc_name ELSE PyNone
                body == UploadPayload(doc_url, name, upload_mode)
            IN  /\ payload' = body
                /\ trace' = Append(trace, UploadRequest(body))
                /\ pc' = "L54"
       ELSE /\ trace' = IF clicked = "Upload Document"
                        THEN Append(trace,
                                 Ui("error", << "Please provide a document URL." >>))
                        ELSE trace
            /\ pc' = "L187"
            /\ UNCHANGED payload
    /\ UNCHANGED << RAGIE_API_KEY, session_state, inputs, pipeline, chunks,
                    system_prompt, response, returned, failed, history >>

\* lines 54-59 and 178-179: the indexing endpoint answers
UploadResponse(status, reason, body) ==
    /\ pc = "L54"
    /\ LET got == Append(trace, Response("upload", status, reason, body))
       IN  IF ~ResponseOk(status)
           THEN /\ trace' = Append(got, UploadError(UploadFailedMessage(status, reason)))
                /\ failed' = "ingestion"
                /\ pc' = AfterUploadError
                /\ UNCHANGED returned
           ELSE IF body.kind /= "json"
           THEN /\ trace' = Append(got, UploadError(JsonDecodeMessage))
                /\ failed' = "ingestion body"
                /\ pc' = AfterUploadError
                /\ UNCHANGED returned
           ELSE /\ trace' = got
                /\ returned' = returned \cup { "upload_document" }
                /\ pc' = AfterUploadReturn
                /\ UNCHANGED failed
    /\ UNCHANGED << RAGIE_API_KEY, session_state, inputs, pipeline, payload,
                    chunks, system_prompt, response, history >>

\* line 176: time.sleep(5)
GraceDelay ==
    /\ pc = "L176"
    /\ trace' = Append(trace, Sleep(GraceSeconds))
    /\ pc' = "L177"
    /\ UNCHANGED << RAGIE_API_KEY, session_state, inputs, pipeline, payload,
                    chunks, system_prompt, response, returned, failed, history >>

\* line 177: the success confirmation
UploadConfirm ==
    /\ pc = "L177"
    /\ trace' = Append(trace,
           Ui("success", << "Document uploaded and indexed successfully!" >>))
    /\ pc' = "L187"
    /\ UNCHANGED << RAGIE_API_KEY, session_state, inputs, pipeline, payload,
                    chunks, system_prompt, response, returned, failed, history >>

\* lines 187-197, 122 and 65-83: the "Generate Response" button, up to the POST
QueryClick ==
    /\ pc = "L187"
    /\ IF clicked = "Generate Response" /\ query /= ""
       THEN /\ trace' = Append(trace, RetrievalRequest(query, DefaultScope))
            /\ pc' = "L79"
       ELSE /\ trace' = IF clicked = "Generate Response"
                        THEN Append(trace, Ui("error", << "Please enter a query." >>))
                        ELSE trace
            /\ pc' = "idle"
    /\ UNCHANGED << RAGIE_API_KEY, session_state, inputs, pipeline, payload,
                    chunks, system_prompt, response, returned, failed, history >>

\* the run ends with the error the except clause of line 194 shows
QueryFails(shown, message, stage) ==
    /\ trace' = Append(shown, QueryError(message))
    /\ failed' = stage
    /\ pc' = "idle"

\* lines 85-94, 124-128 and 102-114: the retrieval endpoint answers
RetrievalResponse(status, reason, body) ==
    /\ pc = "L79"
    /\ LET got    == Append(trace, Response("retrieval", status, reason, body))
           timed  == Append(got,
                         Ui("info", << "Time taken to retrieve document information" >>))
       IN  IF ~ResponseOk(status)
           THEN /\ QueryFails(got, RetrievalFailedMessage(status, reason), "retrieval")
                /\ UNCHANGED << chunks, system_prompt, response, returned >>
           ELSE IF body.kind /= "json"
           THEN /\ QueryFails(got, JsonDecodeMessage, "malformed")
                /\ UNCHANGED << chunks, system_prompt, response, returned >>
           ELSE IF "scored_chunks" \notin body.fields
           THEN /\ QueryFails(timed, MissingChunksMessage, "malformed")
                /\ UNCHANGED << chunks, system_prompt, response, returned >>
           ELSE IF \E i \in 1..Len(body.scored_chunks) :
                       "text" \notin DOMAIN body.scored_chunks[i]
           THEN /\ QueryFails(timed, MissingTextMessage, "malformed")
                /\ UNCHANGED << chunks, system_prompt, response, returned >>
           ELSE LET texts == ChunkTexts(body.scored_chunks)
                IN  /\ chunks' = texts
                    /\ UNCHANGED failed
                    /\ IF IsEmptyResult(texts)
                       THEN /\ response' = Sentinel
                            /\ returned' = returned \cup { "retrieve_chunks", "process_query" }
                            /\ trace' = timed \o << Ui("markdown", << "### Response:" >>),
                                                    Ui("markdown", << Sentinel >>) >>
                            /\ pc' = "idle"
                            /\ UNCHANGED system_prompt
                       ELSE /\ system_prompt' = create_system_prompt(texts)
                            /\ returned' = returned \cup { "retrieve_chunks" }
                            /\ trace' = Append(timed,
                                   GenerationRequest(create_system_prompt(texts), query))
                            /\ pc' = "L106"
                            /\ UNCHANGED response
    /\ UNCHANGED << RAGIE_API_KEY, session_state, inputs, pipeline, payload, history >>

\* lines 106-116 and 192-195: the completion call returns or raises
GenerationResponse(outcome) ==
    /\ pc = "L106"
    /\ LET got == Append(trace, [ev |-> "response", from |-> "generation",
                                 raised |-> outcome.raised])
       IN  IF outcome.raised
           THEN /\ QueryFails(got, << outcome.message >>, "generation")
                /\ UNCHANGED << response, returned >>
           ELSE /\ response' = outcome.content
                /\ returned' = returned \cup { "generate_response", "process_query" }
                /\ trace' = got \o << Ui("markdown", << "### Response:" >>),
                                      Ui("markdown", << outcome.content >>) >>
                /\ pc' = "idle"
                /\ UNCHANGED failed
    /\ UNCHANGED << RAGIE_API_KEY, session_state, inputs, pipeline, payload,
                    chunks, system_prompt, history >>

Next ==
    \/ \E button \in Buttons \ { "none" } : Click(button)
    \/ \E key \in SambaNovaKeyInputs : EditApiKey(key)
    \/ \E url \in DocUrlInputs, name \in DocNameInputs, mode \in UploadModes :
          EditDocument(url, name, mode)
    \/ \E q \in QueryInputs : EditQuery(q)
    \/ SubmitApiKey
    \/ ConstructPipeline
    \/ UploadClick
    \/ \E status \in Statuses, reason \in Reasons, body \in UploadBodies :
          UploadResponse(status, reason, body)
    \/ GraceDelay
    \/ UploadConfirm
    \/ QueryClick
    \/ \E status \in Statuses, reason \in Reasons, body \in RetrievalBodies :
          RetrievalResponse(status, reason, body)
    \/ \E outcome \in GenerationOutcomes : GenerationResponse(outcome)

Spec == Init /\ [][Next]_vars

(***************************************************************************)
(* create_system_prompt on its own: the chunk list is drawn at the start   *)
(* and the function is applied to it.                                      *)
(***************************************************************************)
InitPrompt ==
    /\ RAGIE_API_KEY = "ragie-key"
    /\ session_state = [keys |-> { }, sambanova_key |-> NoneStr]
    /\ sambanova_key = ""
    /\ doc_url = << >>
    /\ doc_name = << >>
    /\ upload_mode = "fast"
    /\ query = ""
    /\ clicked = "none"
    /\ pc = "prompt"
    /\ pipeline = NoPipeline
    /\ payload = [mode |-> "fast", name |-> << >>, url |-> << >>]
    /\ chunks \in ChunkTextLists
    /\ system_prompt = << >>
    /\ response = NoneStr
    /\ trace = << >>
    /\ returned = { }
    /\ failed = "none"
    /\ accepted_key = NoneStr
    /\ replaced_key = NoneStr

CreateSystemPrompt ==
    /\ pc = "prompt"
    /\ system_prompt' = create_system_prompt(chunks)
    /\ pc' = "prompt built"
    /\ UNCHANGED << RAGIE_API_KEY, session_state, inputs, pipeline, payload,
                    chunks, response, trace, returned, failed, history >>

SpecPrompt == InitPrompt /\ [][CreateSystemPrompt]_vars

(***************************************************************************)
(* upload_document's payload on its own: the URL, the name argument and    *)
(* the mode are drawn at the start and the payload is built from them.     *)
(***************************************************************************)
InitUpload ==
    /\ RAGIE_API_KEY = "ragie-key"
    /\ session_state = [keys |-> { }, sambanova_key |-> NoneStr]
    /\ sambanova_key = ""
    /\ doc_url \in UrlStrings
    /\ doc_name \in NameArgs
    /\ upload_mode \in UploadModes
    /\ query = ""
    /\ clicked = "none"
    /\ pc = "payload"
    /\ pipeline = NoPipeline
    /\ payload = [mode |-> "fast", name |-> << >>, url |-> << >>]
    /\ chunks = << >>
    /\ system_prompt = << >>
    /\ response = NoneStr
    /\ trace = << >>
    /\ returned = { }
    /\ failed = "none"
    /\ accepted_key = NoneStr
    /\ replaced_key = NoneStr

BuildUploadPayload ==
    /\ pc = "payload"
    /\ payload' = UploadPayload(doc_url, doc_name, upload_mode)
    /\ pc' = "payload built"
    /\ UNCHANGED << RAGIE_API_KEY, session_state, inputs, pipeline, chunks,
                    system_prompt, response, trace, returned, failed, history >>

SpecUpload == InitUpload /\ [][BuildUploadPayload]_vars

(***************************************************************************)
(* Properties.                                                             *)
(***************************************************************************)
\* positions of the run's outbound calls to one service
RequestsTo(to) == { i \in 1..Len(trace) : IsRequest(trace[i], to) }

\* positions of the answers of one service
ResponsesFrom(from) == { i \in 1..Len(trace) : IsResponse(trace[i], from) }

SleepEvents == { i \in 1..Len(trace) : IsSleep(trace[i]) }

ConfirmationText == << "Document uploaded and indexed successfully!" >>

UploadConfirmations ==
    { i \in 1..Len(trace) : IsUi(trace[i], "success") /\ trace[i].text = ConfirmationText }

ErrorStatus(status) == status \in 400..599

Non2xx(status) == status \notin 200..299

\* C1: when the search succeeds with zero chunks, process_query returns
\* exactly the sentinel, the page shows it, and the run holds no generation
\* request.
C1_EmptyResultShortCircuits ==
    ("retrieve_chunks" \in returned /\ chunks = << >>)
        => /\ response = "No relevant information found for your query."
           /\ "process_query" \in returned
           /\ RequestsTo("generation") = { }
           /\ pc = "idle"
           /\ trace[Len(trace)] =
                  Ui("markdown", << "No relevant information found for your query." >>)

C1_Witness ==
    /\ "retrieve_chunks" \in returned
    /\ chunks = << >>
    /\ response = Sentinel
    /\ ResponsesFrom("retrieval") /= { }

\* the answer operation ended in an error right after the retrieval response
\* at position i, without any generation request and without a return value
AnswerAbortedAt(i) ==
    /\ pc = "idle"
    /\ response = NoneStr
    /\ "process_query" \notin returned
    /\ RequestsTo("generation") = { }
    /\ IsUi(trace[Len(trace)], "error")
    /\ \A j \in (i + 1)..Len(trace) : trace[j].ev = "ui"

\* the error shown for a failed retrieval status carries status and reason
RetrievalErrorShownAt(i) ==
    /\ Len(trace) = i + 1
    /\ trace[i + 1] =
           Ui("error", << "Error generating response: ", "Retrieval failed: ",
                          ToString(trace[i].status), " ", trace[i].reason >>)

LacksChunkList(body) == body.kind = "json" /\ "scored_chunks" \notin body.fields

IngestFailedAt(i) ==
    /\ Len(trace) = i + 1
    /\ trace[i + 1] =
           Ui("error", << "Error uploading document: ", "Document upload failed: ",
                          ToString(trace[i].status), " ", trace[i].reason >>)
    /\ SleepEvents = { }
    /\ UploadConfirmations = { }
    /\ "upload_document" \notin returned
    /\ pc \in { "L187", "idle" }

FindText(prompt, text, from) ==
    LET hits == { i \in from..(Len(prompt) - Len(text) + 1) :
                      SubSeq(prompt, i, i + Len(text) - 1) = text }
    IN  IF hits = {} THEN 0 ELSE SetMin(hits)

\* the texts occur in prompt one after the other, from position from on
RECURSIVE OccurInOrder(_, _, _)
OccurInOrder(prompt, texts, from) ==
    IF texts = << >> THEN TRUE
    ELSE LET at == FindText(prompt, Head(texts), from)
         IN  at /= 0 /\ OccurInOrder(prompt, Tail(texts), at + Len(Head(texts)))

\* C4: for every non-empty chunk list, the prompt create_system_prompt
\* builds contains every chunk's text character for character, the texts
\* occurring in the order of the list.
C4_ChunksVerbatimInOrder ==
    (pc = "prompt built" /\ chunks /= << >>)
        => OccurInOrder(system_prompt, chunks, 1)

\* the part of a path after its last "/"
LastSegment(path) == From(path, RFind(path, "/") + 1)

\* C5: when upload_document is given no name, the payload's name is the last
\* "/"-separated segment of the URL's path if that segment is non-empty and
\* "document" otherwise; it is never empty.
C5_DefaultNameIsLastSegment ==
    (pc = "payload built" /\ Falsy(doc_name))
        => LET segment == LastSegment(urlparse(doc_url).path)
           IN  /\ payload.name =
                      IF segment /= << >> THEN segment
                      ELSE << "d", "o", "c", "u", "m", "e", "n", "t" >>
               /\ payload.name /= << >>

C5_Witness ==
    /\ pc = "payload built"
    /\ doc_name = PyNone
    /\ doc_url = RootUrl
    /\ payload.name = << "d", "o", "c", "u", "m", "e", "n", "t" >>

\* an operation of the pipeline is under way or has run in this run
OperationRan ==
    \/ pc \in { "L167", "L54", "L176", "L177", "L79", "L106" }
    \/ pipeline.constructed
    \/ \E i \in 1..Len(trace) : trace[i].ev = "request"
    \/ returned /= { }
    \/ failed /= "none"

\* C6: no pipeline operation and no outbound call happens unless the Ragie
\* key and the SambaNova key are both present; without the Ragie key the
\* pipeline is not constructed and nothing is sent.
C6_BothCredentialsPresent ==
    /\ OperationRan =>
           /\ Truthy(RAGIE_API_KEY)
           /\ "sambanova_key" \in session_state.keys
           /\ Truthy(session_state.sambanova_key)
           /\ \A i \in 1..Len(trace) :
                  trace[i].ev = "request" => Truthy(trace[i].auth)
    /\ ~Truthy(RAGIE_API_KEY) =>
           /\ ~pipeline.constructed
           /\ \A i \in 1..Len(trace) : trace[i].ev /= "request"

C6_Witness ==
    /\ ~Truthy(RAGIE_API_KEY)
    /\ "sambanova_key" \in session_state.keys
    /\ clicked = "Generate Response"
    /\ query /= ""
    /\ pc = "idle"
    /\ trace = << Ui("error", MissingRagieKeyMessage) >>

\* C7: every generation request is made with the key the page accepted last.
C7_LatestKeyUsed ==
    \A i \in RequestsTo("generation") :
        /\ trace[i].auth = accepted_key
        /\ replaced_key /= accepted_key => trace[i].auth /= replaced_key

C7_Witness ==
    /\ RequestsTo("generation") /= { }
    /\ replaced_key = "key-1"
    /\ accepted_key = "key-2"
    /\ sambanova_key = "key-1"

\* the stage an error shown on the page names: the stage its message states,
\* or else the operation its label states
StageNamed(e) ==
    IF e.text[2] = "Document upload failed: " THEN "ingestion"
    ELSE IF e.text[2] = "Retrieval failed: " THEN "retrieval"
    ELSE IF e.text[1] = "Error uploading document: " THEN "ingestion"
    ELSE "generation"

\* C8: when an operation fails, the error shown names the stage that failed
\* (ingestion, retrieval status, malformed retrieval response, generation).
C8_ErrorNamesFailedStage ==
    failed \in { "ingestion", "retrieval", "malformed", "generation" }
        => \E i \in 1..Len(trace) :
               /\ IsUi(trace[i], "error")
               /\ StageNamed(trace[i]) = failed

C10_GraceDelayBeforeConfirmation ==
    /\ \A i \in UploadConfirmations :
           /\ i >= 3
           /\ IsSleep(trace[i - 1])
           /\ trace[i - 1].seconds = GraceSeconds
           /\ IsResponse(trace[i - 2], "upload")
           /\ ~ErrorStatus(trace[i - 2].status)
           /\ "upload_document" \in returned
    /\ ("upload_document" \in returned /\ pc \in { "L187", "idle" })
           => UploadConfirmations /= { }

C10_Witness ==
    /\ UploadConfirmations /= { }
    /\ pc = "idle"

====
